---- MODULE Spec2Model ----
(***************************************************************************)
(* Poll lifecycle of the collaborative code-voting bot (src/bot.py):       *)
(* BotStorage, send_poll, poll_answer_handler, close_poll, the /start and  *)
(* /sendnow commands and the job queue that chains one poll into the next. *)
(*                                                                         *)
(* Scheduling.  Updates (commands, poll answers) are handled one at a time *)
(* by the Application (main builds it without concurrent_updates), so at   *)
(* most one command handler is in flight.  Every job of the job queue runs *)
(* as a task of its own on the same event loop, so a close_poll task and   *)
(* the handler in flight interleave at every await.  A block of code       *)
(* between two awaits is one atomic action.                                *)
(*                                                                         *)
(* Abstractions.  Poll ids and message ids issued by Telegram are the      *)
(* naturals 1, 2, ...; the four lines generate_code_options proposes for   *)
(* the poll that gets id p are the tokens Line(p, 0..3); timestamps        *)
(* (close_time, created_at, closed_at) are left out: no branch of the code *)
(* modelled here reads them.  Time is abstract: a scheduled job fires at   *)
(* any later moment, a sleep ends at any later moment.                     *)
(***************************************************************************)
EXTENDS Integers, Sequences, FiniteSets, Bags, TLC

\* ---------------------------------------------------------------- bounds
\* events from outside in a run: commands, poll answers, timers that fire,
\* Telegram calls that fail, process restarts
MaxEvents == 4
\* highest count of an option in the tallies that closes are tried on
MaxTally == 3
\* every poll but the first needs a command or a timer that fired
MaxPolls == MaxEvents

\* the chat ids commands and jobs name
Chats == {1, 2}
PollIds == 1..MaxPolls
NoPoll == 0
EmptyLine == 0

\* range(4) of send_poll: the option indices
NumOptions == 4
OptionIds == 0..(NumOptions - 1)

\* ------------------------------------------------------- python values
\* A dict key is an int or a str; json has only str keys.
IntKey(n) == [t |-> "int", n |-> n, s |-> ""]
StrKey(s) == [t |-> "str", n |-> 0, s |-> s]

\* str(n) / json's rendering of an int key, for the keys that occur
Digits == <<"0", "1", "2", "3">>
Str(n) == Digits[n + 1]

\* A dict is the sequence of its items in insertion order.
DictHas(d, k) == \E i \in 1..Len(d) : d[i].k = k
DictPos(d, k) == CHOOSE i \in 1..Len(d) : d[i].k = k
DictGet(d, k) == d[DictPos(d, k)].v
DictInc(d, k) == [d EXCEPT ![DictPos(d, k)].v = @ + 1]

\* {i: 0 for i in range(4)}
NewVotes == [i \in 1..NumOptions |-> [k |-> IntKey(i - 1), v |-> 0]]

\* the four candidate lines of the poll that is published as p
Line(p, i) == NumOptions * (p - 1) + i + 1
GenerateCodeOptions(p) == [i \in 1..NumOptions |-> Line(p, i - 1)]

\* ------------------------------------------------ generate_code_options
\* A line of text is its leading blanks and its body, the text without the
\* blanks around it; str.strip() drops the blanks, len() counts both.
Text(lead, body) == [lead |-> lead, body |-> body]
Strip(l) == [l EXCEPT !.lead = 0]
Length(l) == l.lead + Len(l.body)
EmptyString == Text(0, "")
MaxLineLength == 95
\* line.startswith(fence) of a stripped line; the three backquotes of the
\* fence are written ~~~ here
Fences == {"~~~", "~~~python"}

\* the fallback options of lines 158-170 and the padding of line 186
FallbackFirst == <<Text(0, "# Simple Python program"), Text(0, "import sys"),
                   Text(0, "def main():"), Text(0, "if __name__ == '__main__':")>>
FallbackNext == <<Text(4, "pass"), Text(4, "# TODO: implement"),
                  Text(4, "return None"), Text(4, "print('Done')")>>
OptionBodies == <<"# Option 1", "# Option 2", "# Option 3", "# Option 4">>
\* the padding without its four leading blanks
PlaceholderFlush(n) == Text(0, OptionBodies[n])
Placeholder(n) == Text(4, OptionBodies[n])

\* lines 172-174: the stripped non-blank lines that are no fence and fit
RECURSIVE UsableLines(_)
UsableLines(raw) ==
    IF raw = <<>> THEN <<>>
    ELSE LET line == Strip(Head(raw)) IN
         IF line # EmptyString /\ line.body \notin Fences /\ Length(line) <= MaxLineLength
         THEN <<line>> \o UsableLines(Tail(raw))
         ELSE UsableLines(Tail(raw))

\* lines 177-182: the first four distinct lines, in order
RECURSIVE UniqueLines(_, _)
UniqueLines(lines, unique_lines) ==
    IF lines = <<>> \/ Len(unique_lines) = NumOptions THEN unique_lines
    ELSE UniqueLines(Tail(lines),
                     IF \E i \in 1..Len(unique_lines) : unique_lines[i] = Head(lines)
                     THEN unique_lines
                     ELSE Append(unique_lines, Head(lines)))

\* lines 185-186
RECURSIVE PadLines(_)
PadLines(unique_lines) ==
    IF Len(unique_lines) >= NumOptions THEN unique_lines
    ELSE PadLines(Append(unique_lines, Placeholder(Len(unique_lines) + 1)))

\* generate_code_options, given what call_llm returned as the lines of
\* response.split('\n'); the empty response is the one empty line
generate_code_options(code_history, response) ==
    IF response = <<EmptyString>>
    THEN IF code_history = <<>> THEN FallbackFirst ELSE FallbackNext
    ELSE SubSeq(PadLines(UniqueLines(UsableLines(response), <<>>)), 1, NumOptions)

\* max(votes, key=votes.get): the first key, in iteration order, whose value
\* is not exceeded by a later one replacing it (max keeps the first maximum)
RECURSIVE MaxKeyFrom(_, _, _)
MaxKeyFrom(d, i, best) ==
    IF i > Len(d) THEN d[best].k
    ELSE MaxKeyFrom(d, i + 1, IF d[i].v > d[best].v THEN i ELSE best)
\* max that keeps the last maximum (>= for >)
RECURSIVE MaxKeyLastFrom(_, _, _)
MaxKeyLastFrom(d, i, best) ==
    IF i > Len(d) THEN d[best].k
    ELSE MaxKeyLastFrom(d, i + 1, IF d[i].v >= d[best].v THEN i ELSE best)
MaxKeyLast(d) == MaxKeyLastFrom(d, 2, 1)

MaxKey(d) == MaxKeyFrom(d, 2, 1)

\* -------------------------------------------------------------- state
VARIABLES
    data,          \* storage.data["chats"]: chat -> session
    objs,          \* the poll_data dicts still referenced, by poll id
    disk,          \* the document in STORAGE_FILE
    jobs,          \* job queue: poll ids with a close_poll_callback pending
    tasks,         \* bag of the close_poll coroutines in flight
    handler,       \* the command handler in flight
    nextPoll,      \* next id Telegram issues
    gw,            \* Telegram's side of each poll: its chat, open or stopped
    archivedCnt,   \* history: storage.add_poll calls per poll id
    announcedCnt,  \* history: result announcements sent per poll id
    events,        \* history: events from outside (commands, poll answers,
                   \* failed Telegram calls, process restarts) so far
    dropped,       \* history: a poll answer that named no active poll was handled
    voters,        \* history: per active poll, the users whose poll answers
                   \* for it have been handled
    publishFailed, \* history: a bot.send_poll call of send_poll has raised
    gen            \* the call of generate_code_options under study

vars == <<data, objs, disk, jobs, tasks, handler, nextPoll, gw, archivedCnt,
          announcedCnt, events, dropped, voters, publishFailed, gen>>

\* get_chat's default session, and the absence of a session
NewSession == [present |-> TRUE, polls |-> <<>>, active_poll |-> NoPoll]
Absent == [present |-> FALSE, polls |-> <<>>, active_poll |-> NoPoll]

NoObj == [poll_id |-> NoPoll, message_id |-> 0, options |-> <<>>, votes |-> <<>>]

\* ----------------------------------------------------------- BotStorage
\* The value of a session with active_poll dereferenced.
SessionValue(d, o, c) ==
    [present |-> d[c].present,
     polls |-> d[c].polls,
     active_poll |-> IF d[c].active_poll = NoPoll THEN NoObj ELSE o[d[c].active_poll]]

\* json.dump: every dict key is written as a string
DumpKey(k) == IF k.t = "int" THEN Str(k.n) ELSE k.s
DumpDict(d) == [i \in 1..Len(d) |-> <<DumpKey(d[i].k), d[i].v>>]
DumpPoll(p) == [poll_id |-> p.poll_id, message_id |-> p.message_id,
                options |-> p.options, votes |-> DumpDict(p.votes)]
DumpResult(r) == [poll_id |-> r.poll_id, options |-> r.options,
                  votes |-> DumpDict(r.votes), winner |-> r.winner,
                  winner_index |-> r.winner_index]
DumpSession(s) ==
    [present |-> s.present,
     polls |-> [i \in 1..Len(s.polls) |-> DumpResult(s.polls[i])],
     active_poll |-> DumpPoll(s.active_poll)]
Save(d, o) == [c \in Chats |-> DumpSession(SessionValue(d, o, c))]

\* json.load: every object key is read as a str
LoadDict(j) == [i \in 1..Len(j) |-> [k |-> StrKey(j[i][1]), v |-> j[i][2]]]
LoadPoll(p) == [poll_id |-> p.poll_id, message_id |-> p.message_id,
                options |-> p.options, votes |-> LoadDict(p.votes)]
LoadResult(r) == [poll_id |-> r.poll_id, options |-> r.options,
                  votes |-> LoadDict(r.votes), winner |-> r.winner,
                  winner_index |-> r.winner_index]
LoadSession(s) ==
    [present |-> s.present,
     polls |-> [i \in 1..Len(s.polls) |-> LoadResult(s.polls[i])],
     active_poll |-> LoadPoll(s.active_poll)]
Load(doc) == [c \in Chats |-> LoadSession(doc[c])]

\* get_chat: the session, created when missing
GetChat(d, c) == IF d[c].present THEN d ELSE [d EXCEPT ![c] = NewSession]
\* clear_chat that assigns a new chats dict holding only empty sessions
ClearChatAll(d, c) == [x \in Chats |-> NewSession]
\* clear_chat that empties polls and leaves active_poll as it is
ClearChatKeepActive(d, c) == [GetChat(d, c) EXCEPT ![c].polls = <<>>]
\* clear_chat
ClearChat(d, c) == [d EXCEPT ![c] = NewSession]
\* add_poll that puts the result in front of the list
AddPollFront(d, c, r) == [GetChat(d, c) EXCEPT ![c].polls = <<r>> \o @]
\* add_poll
AddPoll(d, c, r) == [GetChat(d, c) EXCEPT ![c].polls = Append(@, r)]
\* set_active_poll
SetActivePoll(d, c, p) == [GetChat(d, c) EXCEPT ![c].active_poll = p]
\* get_code_history: the winners that are truthy, in order
RECURSIVE Winners(_)
Winners(ps) ==
    IF ps = <<>> THEN <<>>
    ELSE IF Head(ps).winner # EmptyLine
         THEN <<Head(ps).winner>> \o Winners(Tail(ps))
         ELSE Winners(Tail(ps))
GetCodeHistory(d, c) == Winners(GetChat(d, c)[c].polls)

ActiveOf(c) == data[c].active_poll

\* ---------------------------------------------------------------- tasks
\* The command handler in flight: the command, where it waits, its chat and
\* its locals code_history (start_command) and code_history (send_poll).
IdleHandler == [kind |-> "idle", pc |-> "idle", chat |-> 0, hist |-> <<>>, ctx |-> <<>>]

\* A close_poll coroutine: poll_id, where it waits, chat_id, winner_line, the
\* code_history of the send_poll it chains into; cleared records that the chat
\* was cleared while the coroutine waited for stop_poll.
CloseTask(p, c) == [poll |-> p, pc |-> "stop", chat |-> c, winner |-> EmptyLine,
                    ctx |-> <<>>, cleared |-> FALSE]

Running == BagToSet(tasks)
TasksOf(p) == {t \in Running : t.poll = p}
Step(bag, t, u) == (bag (-) SetToBag({t})) (+) SetToBag({u})
Drop(bag, t) == bag (-) SetToBag({t})

\* The poll_data dicts something still refers to: an active_poll, or the local
\* active_poll of a close_poll that has not yet read the winner from it.
Collect(o, d, tk) ==
    [p \in PollIds |->
        IF (\E c \in Chats : d[c].active_poll = p)
           \/ (\E t \in BagToSet(tk) : t.poll = p /\ t.pc = "stop")
        THEN o[p] ELSE NoObj]

NoGw == [chat |-> 0, open |-> FALSE]

\* the users that sent poll answers: poll_answer.user
Voters == {1, 2}
\* the voters seen, kept for the polls that are some chat's active poll
Seen(v, d) ==
    [p \in PollIds |-> IF \E c \in Chats : d[c].active_poll = p THEN v[p] ELSE {}]

\* no call of generate_code_options is under study
NoCall == [pc |-> "none", code_history |-> <<>>, response |-> <<>>, options |-> <<>>]

Init ==
    /\ data = [c \in Chats |-> Absent]
    /\ objs = [p \in PollIds |-> NoObj]
    /\ disk = Save([c \in Chats |-> Absent], [p \in PollIds |-> NoObj])
    /\ jobs = {}
    /\ tasks = EmptyBag
    /\ handler = IdleHandler
    /\ nextPoll = 1
    /\ gw = [p \in PollIds |-> NoGw]
    /\ archivedCnt = [p \in PollIds |-> 0]
    /\ announcedCnt = [p \in PollIds |-> 0]
    /\ events = 0
    /\ dropped = FALSE
    /\ voters = [p \in PollIds |-> {}]
    /\ publishFailed = FALSE
    /\ gen = NoCall

\* ------------------------------------------------------------ send_poll
\* send_poll up to the await of bot.send_poll: the history read at line 494
SendPollContext(d, c) == GetCodeHistory(d, c)

\* poll_data of lines 510-517 for the poll Telegram published as p
NewPollData(p) == [poll_id |-> p, message_id |-> p,
                   options |-> GenerateCodeOptions(p), votes |-> NewVotes]

\* the rest of send_poll (lines 508-528) once Telegram has published the poll
\* for chat c; tk is the bag of close tasks after this step
PollPublished(c, tk) ==
    LET p == nextPoll IN
    /\ nextPoll <= MaxPolls
    /\ nextPoll' = nextPoll + 1
    /\ gw' = [gw EXCEPT ![p] = [chat |-> c, open |-> TRUE]]
    /\ data' = SetActivePoll(data, c, p)
    /\ objs' = Collect([objs EXCEPT ![p] = NewPollData(p)], data', tk)
    /\ disk' = Save(data', objs')
    /\ jobs' = jobs \cup {p}
    /\ voters' = Seen(voters, data')

\* clear_chat, as the close tasks that wait for stop_poll on a poll of chat c
\* see it
MarkCleared(bag, c) ==
    LET hit(t) == t.pc = "stop" /\ t.chat = c
        f(t)   == IF hit(t) THEN [t EXCEPT !.cleared = TRUE] ELSE t
        img    == {f(t) : t \in BagToSet(bag)}
    IN [u \in img |->
          (IF u \in BagToSet(bag) THEN bag[u] ELSE 0)
          + (IF hit(u) /\ [u EXCEPT !.cleared = FALSE] \in BagToSet(bag)
             THEN bag[[u EXCEPT !.cleared = FALSE]] ELSE 0)]

\* ------------------------------------------------------------ the outside
\* An event from outside happens, within the budget of the run.
External == events < MaxEvents /\ events' = events + 1
\* A call to Telegram returns (ok) or raises, which is an event from outside.
Outcome(ok) == IF ok THEN events' = events ELSE External

\* ------------------------------------------------------------- commands
\* /code, /health, /start of a non-admin: get_chat creates the session
ReadCommand(c) ==
    /\ External
    /\ handler.kind = "idle"
    /\ ~data[c].present
    /\ data' = GetChat(data, c)
    /\ disk' = Save(data', objs)
    /\ UNCHANGED <<objs, jobs, tasks, handler, nextPoll, gw, archivedCnt,
                   announcedCnt, dropped, voters, publishFailed, gen>>

\* start_command of an admin for target chat c, lines 252-271 (history
\* non-empty: the snapshot is awaited) or 252-300 (history empty: clear_chat
\* runs at once)
StartBegin(c) ==
    /\ External
    /\ handler.kind = "idle"
    /\ LET hist == GetCodeHistory(data, c) IN
       IF hist = <<>>
       THEN /\ data' = ClearChat(data, c)
            /\ tasks' = MarkCleared(tasks, c)
            /\ handler' = [IdleHandler EXCEPT !.kind = "start", !.pc = "reply", !.chat = c]
       ELSE /\ data' = GetChat(data, c)
            /\ tasks' = tasks
            /\ handler' = [IdleHandler EXCEPT !.kind = "start", !.pc = "snapshot",
                                              !.chat = c, !.hist = hist]
    /\ objs' = Collect(objs, data', tasks')
    /\ disk' = Save(data', objs')
    /\ voters' = Seen(voters, data')
    /\ UNCHANGED <<jobs, nextPoll, gw, archivedCnt, announcedCnt, dropped, publishFailed, gen>>

\* start_command, lines 271-300: the replies and the document of the snapshot
\* went through (ok), or one of them raised, which ends the command at line 327
StartSnapshotDone(ok) ==
    /\ Outcome(ok)
    /\ handler.kind = "start" /\ handler.pc = "snapshot"
    /\ IF ok
       THEN /\ data' = ClearChat(data, handler.chat)
            /\ tasks' = MarkCleared(tasks, handler.chat)
            /\ handler' = [handler EXCEPT !.pc = "reply"]
       ELSE /\ data' = data
            /\ tasks' = tasks
            /\ handler' = IdleHandler
    /\ objs' = Collect(objs, data', tasks')
    /\ disk' = Save(data', objs')
    /\ voters' = Seen(voters, data')
    /\ UNCHANGED <<jobs, nextPoll, gw, archivedCnt, announcedCnt, dropped, publishFailed, gen>>

\* start_command, lines 300-303, and send_poll up to bot.send_poll
StartReplyDone(ok) ==
    /\ Outcome(ok)
    /\ handler.kind = "start" /\ handler.pc = "reply"
    /\ IF ok
       THEN /\ data' = GetChat(data, handler.chat)
            /\ handler' = [handler EXCEPT !.pc = "publish",
                                          !.ctx = SendPollContext(data, handler.chat)]
       ELSE /\ data' = data
            /\ handler' = IdleHandler
    /\ disk' = Save(data', objs)
    /\ UNCHANGED <<objs, jobs, tasks, nextPoll, gw, archivedCnt, announcedCnt, dropped,
                   voters, publishFailed, gen>>

\* sendnow_command without the check of line 398
SendnowBeginUnchecked(c) ==
    /\ External
    /\ handler.kind = "idle"
    /\ data' = GetChat(data, c)
    /\ disk' = Save(data', objs)
    /\ handler' = [IdleHandler EXCEPT !.kind = "sendnow", !.pc = "reply", !.chat = c]
    /\ UNCHANGED <<objs, jobs, tasks, nextPoll, gw, archivedCnt, announcedCnt, dropped,
                   voters, publishFailed, gen>>

\* sendnow_command of an admin in chat c, lines 393-402: with an active poll
\* it sends the refusal (line 399), without one the notice of line 402
SendnowBegin(c) ==
    /\ External
    /\ handler.kind = "idle"
    /\ data' = GetChat(data, c)
    /\ disk' = Save(data', objs)
    /\ handler' = [IdleHandler EXCEPT !.kind = "sendnow", !.chat = c,
                                      !.pc = IF ActiveOf(c) # NoPoll THEN "refuse"
                                                                     ELSE "reply"]
    /\ UNCHANGED <<objs, jobs, tasks, nextPoll, gw, archivedCnt, announcedCnt, dropped,
                   voters, publishFailed, gen>>

\* sendnow_command, lines 399-400: the refusal went out and the command
\* returns, or it raised and the command ends at line 407
SendnowRefuseDone(ok) ==
    /\ Outcome(ok)
    /\ handler.kind = "sendnow" /\ handler.pc = "refuse"
    /\ handler' = IdleHandler
    /\ UNCHANGED <<data, objs, disk, jobs, tasks, nextPoll, gw, archivedCnt,
                   announcedCnt, dropped, voters, publishFailed, gen>>

\* sendnow_command, lines 402-403, and send_poll up to bot.send_poll
SendnowReplyDone(ok) ==
    /\ Outcome(ok)
    /\ handler.kind = "sendnow" /\ handler.pc = "reply"
    /\ IF ok
       THEN /\ data' = GetChat(data, handler.chat)
            /\ handler' = [handler EXCEPT !.pc = "publish",
                                          !.ctx = SendPollContext(data, handler.chat)]
       ELSE /\ data' = data
            /\ handler' = IdleHandler
    /\ disk' = Save(data', objs)
    /\ UNCHANGED <<objs, jobs, tasks, nextPoll, gw, archivedCnt, announcedCnt, dropped,
                   voters, publishFailed, gen>>

\* send_poll with lines 508-528 not skipped when bot.send_poll raised
HandlerPublishDoneEager(ok) ==
    /\ Outcome(ok)
    /\ handler.pc = "publish"
    /\ PollPublished(handler.chat, tasks)
    /\ publishFailed' = (publishFailed \/ ~ok)
    /\ handler' = IdleHandler
    /\ UNCHANGED <<tasks, archivedCnt, announcedCnt, dropped, gen>>

\* send_poll of the command in flight, lines 500-531: bot.send_poll returned
\* the poll, or raised (caught at line 530)
HandlerPublishDone(ok) ==
    /\ Outcome(ok)
    /\ handler.pc = "publish"
    /\ IF ok
       THEN PollPublished(handler.chat, tasks)
       ELSE UNCHANGED <<data, objs, disk, jobs, nextPoll, gw, voters>>
    /\ publishFailed' = (publishFailed \/ ~ok)
    /\ handler' = IdleHandler
    /\ UNCHANGED <<tasks, archivedCnt, announcedCnt, dropped, gen>>

\* -------------------------------------------------- poll_answer_handler
\* option_ids of a poll answer: empty (the vote was retracted) or one index;
\* NumOptions stands for an index that is no key of votes
OptionIdLists == {<<>>} \cup {<<i>> : i \in 0..NumOptions}

\* lines 544-546: each option id that is a key of votes is counted
RECURSIVE CountVotes(_, _)
CountVotes(votes, ids) ==
    IF ids = <<>> THEN votes
    ELSE CountVotes(IF DictHas(votes, IntKey(Head(ids)))
                    THEN DictInc(votes, IntKey(Head(ids)))
                    ELSE votes,
                    Tail(ids))

\* the scan without the comparison of poll ids at line 542
MatchingChatsAnyPoll(pid) == {c \in Chats : ActiveOf(c) # NoPoll}

\* lines 540-542: the chats whose active poll has this id (the loop takes the
\* first; poll ids are unique, so there is at most one)
MatchingChats(pid) ==
    {c \in Chats : ActiveOf(c) # NoPoll /\ objs[ActiveOf(c)].poll_id = pid}

\* close_poll line 590 stores in the result the votes dict of the poll_data
\* itself, not a copy: a count added to the votes of poll_data o shows in
\* every result that was archived from o
ShareVotes(d, o, votes) ==
    [c \in Chats |->
        [d[c] EXCEPT !.polls =
            [i \in DOMAIN @ |->
                IF @[i].poll_id = objs[o].poll_id
                THEN [@[i] EXCEPT !.votes = votes]
                ELSE @[i]]]]
\* poll_answer_handler for the answer of user u to poll pid
PollAnswer(u, pid, ids) ==
    /\ External
    /\ handler.kind = "idle"
    /\ IF MatchingChats(pid) = {}
       THEN /\ dropped' = TRUE
            /\ UNCHANGED <<data, objs, disk, voters>>
       ELSE LET c == CHOOSE x \in MatchingChats(pid) : \A y \in MatchingChats(pid) : x <= y
            IN /\ objs' = [objs EXCEPT ![ActiveOf(c)].votes = CountVotes(@, ids)]
               /\ data' = ShareVotes(data, ActiveOf(c), objs'[ActiveOf(c)].votes)
               /\ disk' = Save(data', objs')
               /\ dropped' = dropped
               /\ voters' = [voters EXCEPT ![ActiveOf(c)] = @ \cup {u}]
    /\ UNCHANGED <<jobs, tasks, handler, nextPoll, gw, archivedCnt,
                   announcedCnt, publishFailed, gen>>

\* ------------------------------------------------------------ close_poll
\* line 571: the poll to close is the chat's active poll
StillActive(c, p) == ActiveOf(c) # NoPoll /\ objs[ActiveOf(c)].poll_id = p

\* JobFire with the job left in the queue (run_repeating for run_once)
JobFireRepeating(p) ==
    /\ External
    /\ p \in jobs
    /\ jobs' = jobs
    /\ data' = GetChat(data, gw[p].chat)
    /\ disk' = Save(data', objs)
    /\ tasks' = IF StillActive(gw[p].chat, p)
                THEN tasks (+) SetToBag({CloseTask(p, gw[p].chat)})
                ELSE tasks
    /\ UNCHANGED <<objs, handler, nextPoll, gw, archivedCnt, announcedCnt, dropped,
                   voters, publishFailed, gen>>

\* close_poll_callback and close_poll, lines 557-577: the job fires once
JobFire(p) ==
    /\ External
    /\ p \in jobs
    /\ jobs' = jobs \ {p}
    /\ data' = GetChat(data, gw[p].chat)
    /\ disk' = Save(data', objs)
    /\ tasks' = IF StillActive(gw[p].chat, p)
                THEN tasks (+) SetToBag({CloseTask(p, gw[p].chat)})
                ELSE tasks
    /\ UNCHANGED <<objs, handler, nextPoll, gw, archivedCnt, announcedCnt, dropped,
                   voters, publishFailed, gen>>

\* a result that names no winner when nobody voted
PollResultNoWinner(p, options, votes, winner_index) ==
    [poll_id |-> p, options |-> options, votes |-> votes,
     winner |-> IF \A k \in 1..Len(votes) : votes[k].v = 0
                THEN EmptyLine ELSE options[winner_index + 1],
     winner_index |-> winner_index]
\* lines 587-594
PollResult(p, options, votes, winner_index) ==
    [poll_id |-> p, options |-> options, votes |-> votes,
     winner |-> options[winner_index + 1], winner_index |-> winner_index]

\* close_poll with the failure of stop_poll not caught at line 578: it ends
\* the close at line 622
CloseStopDoneFatal(t, ok) ==
    /\ Outcome(ok)
    /\ t \in Running /\ t.pc = "stop"
    /\ gw' = [gw EXCEPT ![t.poll].open = IF ok THEN FALSE ELSE @]
    /\ IF ok
       THEN LET r == PollResult(t.poll, objs[t.poll].options, objs[t.poll].votes,
                                MaxKey(objs[t.poll].votes).n) IN
            /\ data' = SetActivePoll(AddPoll(data, t.chat, r), t.chat, NoPoll)
            /\ archivedCnt' = [archivedCnt EXCEPT ![t.poll] = @ + 1]
            /\ tasks' = Step(tasks, t, [t EXCEPT !.pc = "announce", !.winner = r.winner])
       ELSE /\ tasks' = Drop(tasks, t)
            /\ UNCHANGED <<data, archivedCnt>>
    /\ objs' = Collect(objs, data', tasks')
    /\ disk' = Save(data', objs')
    /\ voters' = Seen(voters, data')
    /\ UNCHANGED <<jobs, handler, nextPoll, announcedCnt, dropped, publishFailed, gen>>

\* close_poll that archives the result and leaves the poll the active poll
\* of the chat (no set_active_poll(chat_id, None) at line 596)
CloseStopDoneKeepActive(t, ok) ==
    /\ Outcome(ok)
    /\ t \in Running /\ t.pc = "stop"
    /\ gw' = [gw EXCEPT ![t.poll].open = IF ok THEN FALSE ELSE @]
    /\ LET votes == objs[t.poll].votes
           key == MaxKey(votes)
       IN IF key.t # "int"
          THEN /\ tasks' = Drop(tasks, t)
               /\ UNCHANGED <<data, archivedCnt>>
          ELSE LET r == PollResult(t.poll, objs[t.poll].options, votes, key.n) IN
               /\ data' = AddPoll(data, t.chat, r)
               /\ archivedCnt' = [archivedCnt EXCEPT ![t.poll] = @ + 1]
               /\ tasks' = Step(tasks, t, [t EXCEPT !.pc = "announce", !.winner = r.winner])
    /\ objs' = Collect(objs, data', tasks')
    /\ disk' = Save(data', objs')
    /\ voters' = Seen(voters, data')
    /\ UNCHANGED <<jobs, handler, nextPoll, announcedCnt, dropped, publishFailed, gen>>

\* close_poll, lines 577-608: stop_poll returned, or raised (caught at 578);
\* the winner is taken from the dict the task read at line 569
CloseStopDone(t, ok) ==
    /\ Outcome(ok)
    /\ t \in Running /\ t.pc = "stop"
    /\ gw' = [gw EXCEPT ![t.poll].open = IF ok THEN FALSE ELSE @]
    /\ LET votes == objs[t.poll].votes
           key == MaxKey(votes)
       IN IF key.t # "int"
          THEN \* options[winner_index] raises TypeError, caught at line 622
               /\ tasks' = Drop(tasks, t)
               /\ UNCHANGED <<data, archivedCnt>>
          ELSE LET r == PollResult(t.poll, objs[t.poll].options, votes, key.n) IN
               /\ data' = SetActivePoll(AddPoll(data, t.chat, r), t.chat, NoPoll)
               /\ archivedCnt' = [archivedCnt EXCEPT ![t.poll] = @ + 1]
               /\ tasks' = Step(tasks, t, [t EXCEPT !.pc = "announce", !.winner = r.winner])
    /\ objs' = Collect(objs, data', tasks')
    /\ disk' = Save(data', objs')
    /\ voters' = Seen(voters, data')
    /\ UNCHANGED <<jobs, handler, nextPoll, announcedCnt, dropped, publishFailed, gen>>

\* close_poll, lines 608-615: send_message returned, or raised (line 622)
CloseAnnounceDone(t, ok) ==
    /\ Outcome(ok)
    /\ t \in Running /\ t.pc = "announce"
    /\ IF ok
       THEN /\ announcedCnt' = [announcedCnt EXCEPT ![t.poll] = @ + 1]
            /\ tasks' = Step(tasks, t, [t EXCEPT !.pc = "sleep"])
       ELSE /\ announcedCnt' = announcedCnt
            /\ tasks' = Drop(tasks, t)
    /\ UNCHANGED <<data, objs, disk, jobs, handler, nextPoll, gw, archivedCnt, dropped,
                   voters, publishFailed, gen>>

\* close_poll, lines 615-620, and send_poll up to bot.send_poll
CloseSleepDone(t) ==
    /\ t \in Running /\ t.pc = "sleep"
    /\ data' = GetChat(data, t.chat)
    /\ disk' = Save(data', objs)
    /\ tasks' = IF ActiveOf(t.chat) = NoPoll
                THEN Step(tasks, t, [t EXCEPT !.pc = "publish",
                                              !.ctx = SendPollContext(data, t.chat)])
                ELSE Drop(tasks, t)
    /\ UNCHANGED <<objs, jobs, handler, nextPoll, gw, archivedCnt, announcedCnt,
                   events, dropped, voters, publishFailed, gen>>

\* send_poll of the chain, lines 500-531
ClosePublishDone(t, ok) ==
    /\ Outcome(ok)
    /\ t \in Running /\ t.pc = "publish"
    /\ tasks' = Drop(tasks, t)
    /\ IF ok
       THEN PollPublished(t.chat, tasks')
       ELSE UNCHANGED <<data, objs, disk, jobs, nextPoll, gw, voters>>
    /\ publishFailed' = (publishFailed \/ ~ok)
    /\ UNCHANGED <<handler, archivedCnt, announcedCnt, dropped, gen>>

\* ------------------------------------------------------ process restart
\* The process ends and is started again: BotStorage.__init__ loads the file
\* (line 43); the job queue and every task of the old process are gone.
LoadedActive(doc, p) == {c \in Chats : Load(doc)[c].active_poll.poll_id = p}

ProcessRestart ==
    /\ External
    /\ data' = [c \in Chats |->
                  [present |-> Load(disk)[c].present,
                   polls |-> Load(disk)[c].polls,
                   active_poll |-> Load(disk)[c].active_poll.poll_id]]
    /\ objs' = [p \in PollIds |->
                  IF LoadedActive(disk, p) = {} THEN NoObj
                  ELSE Load(disk)[CHOOSE c \in LoadedActive(disk, p) : TRUE].active_poll]
    /\ jobs' = {}
    /\ tasks' = EmptyBag
    /\ handler' = IdleHandler
    /\ UNCHANGED <<disk, nextPoll, gw, archivedCnt, announcedCnt, dropped, voters,
                   publishFailed, gen>>

\* ----------------------------------------------------------------- spec
Next ==
    \/ \E c \in Chats : ReadCommand(c)
    \/ \E c \in Chats : StartBegin(c)
    \/ \E ok \in BOOLEAN : StartSnapshotDone(ok)
    \/ \E ok \in BOOLEAN : StartReplyDone(ok)
    \/ \E c \in Chats : SendnowBegin(c)
    \/ \E ok \in BOOLEAN : SendnowRefuseDone(ok)
    \/ \E ok \in BOOLEAN : SendnowReplyDone(ok)
    \/ \E ok \in BOOLEAN : HandlerPublishDone(ok)
    \/ \E u \in Voters, p \in PollIds, ids \in OptionIdLists : PollAnswer(u, p, ids)
    \/ \E p \in PollIds : JobFire(p)
    \/ \E t \in Running, ok \in BOOLEAN : CloseStopDone(t, ok)
    \/ \E t \in Running, ok \in BOOLEAN : CloseAnnounceDone(t, ok)
    \/ \E t \in Running : CloseSleepDone(t)
    \/ \E t \in Running, ok \in BOOLEAN : ClosePublishDone(t, ok)
    \/ ProcessRestart

Spec == Init /\ [][Next]_vars

\* ======================================================================
\* Claims
\* ======================================================================
Published(p) == gw[p].chat # 0
ResultsOf(p) == {<<c, i>> \in Chats \X (1..MaxPolls) :
                    i <= Len(data[c].polls) /\ data[c].polls[i].poll_id = p}
Committed == {"announce", "sleep", "publish"}

\* C1 (as amended): for each poll id, however its close event interleaves
\* with other events, at most one PollResult is archived, at most one line is
\* appended to a history and at most one announcement is sent, the
\* announcement only for an archived result; a close that found the poll still
\* active archives exactly one PollResult.
C1_AtMostOnce ==
    \A p \in PollIds :
        /\ archivedCnt[p] <= 1
        /\ announcedCnt[p] <= archivedCnt[p]
        /\ Cardinality(ResultsOf(p)) <= archivedCnt[p]
        /\ \A t \in TasksOf(p) : t.pc \in Committed => archivedCnt[p] = 1

\* C1, witness: the close of a poll has run to its end, with one result
\* archived and announced, while another poll's close event found its poll
\* gone and archived nothing.
C1_Witness ==
    \E p, q \in PollIds :
        /\ archivedCnt[p] = 1 /\ announcedCnt[p] = 1
        /\ Published(q) /\ q # p /\ archivedCnt[q] = 0
        /\ jobs = {} /\ tasks = EmptyBag /\ handler.kind = "idle"
        /\ \A c \in Chats : ActiveOf(c) \notin {p, q}

\* C1 (as stated): once the close event of a poll has been handled to its
\* end, exactly one PollResult has been archived and exactly one announcement
\* sent for that poll.
CloseHandled(p) ==
    /\ JobFire(p) \/ TasksOf(p) # {}
    /\ TasksOf(p)' = {}
    /\ ~ProcessRestart
C1_ExactlyOnce ==
    [][\A p \in PollIds :
          CloseHandled(p) => archivedCnt'[p] = 1 /\ announcedCnt'[p] = 1]_vars

\* C2: a poll is opened for a chat only while the chat has no active poll: no
\* step publishes a poll for a chat whose activePoll is non-null, and no step
\* replaces a non-null activePoll by another poll.
C2_OpenOnlyWhenIdle ==
    [][\A c \in Chats :
          ActiveOf(c) # NoPoll =>
              /\ ActiveOf(c)' \in {NoPoll, ActiveOf(c)}
              /\ \A p \in PollIds : gw'[p].chat = c => gw[p].chat = c]_vars

\* C3: for every chat, at most one poll published through Telegram is still
\* open (published and not stopped).
OpenPolls(c) == {p \in PollIds : gw[p].chat = c /\ gw[p].open}
C3_OneOpenPoll == \A c \in Chats : Cardinality(OpenPolls(c)) <= 1

\* ------------------------------------------------- closes on any tally
\* A poll opened in chat 1 on an empty history, with the poll answers counted
\* so far adding up to any tally, and its close job pending.
Tallies == [OptionIds -> 0..MaxTally]
VotesOf(f) == [i \in 1..NumOptions |-> [k |-> IntKey(i - 1), v |-> f[i - 1]]]

InitTally ==
    \E f \in Tallies :
        /\ data = [c \in Chats |->
                     IF c = 1 THEN [NewSession EXCEPT !.active_poll = 1] ELSE Absent]
        /\ objs = [p \in PollIds |->
                     IF p = 1 THEN [NewPollData(1) EXCEPT !.votes = VotesOf(f)] ELSE NoObj]
        /\ disk = Save(data, objs)
        /\ jobs = {1}
        /\ tasks = EmptyBag
        /\ handler = IdleHandler
        /\ nextPoll = 2
        /\ gw = [p \in PollIds |-> IF p = 1 THEN [chat |-> 1, open |-> TRUE] ELSE NoGw]
        /\ archivedCnt = [p \in PollIds |-> 0]
        /\ announcedCnt = [p \in PollIds |-> 0]
        /\ events = 0
        /\ dropped = FALSE
        /\ voters = [p \in PollIds |-> {}]
        /\ publishFailed = FALSE
        /\ gen = NoCall

\* the timer and the close it starts, chained polls included
NextTally ==
    \/ \E p \in PollIds : JobFire(p)
    \/ \E t \in Running, ok \in BOOLEAN : CloseStopDone(t, ok)
    \/ \E t \in Running, ok \in BOOLEAN : CloseAnnounceDone(t, ok)
    \/ \E t \in Running : CloseSleepDone(t)
    \/ \E t \in Running, ok \in BOOLEAN : ClosePublishDone(t, ok)

SpecTally == InitTally /\ [][NextTally]_vars

\* the count of option i in a votes dict, whatever the kind of its keys
CountOf(votes, i) == votes[i + 1].v
\* w has the highest count, and every lower index has a lower count
IsLowestMax(votes, w) ==
    /\ w \in OptionIds
    /\ \A j \in OptionIds : CountOf(votes, j) <= CountOf(votes, w)
    /\ \A j \in OptionIds : j < w => CountOf(votes, j) < CountOf(votes, w)

\* C4: whenever a close archives a result, its winner_index is the lowest
\* index with the highest count of the poll's tally at that moment, and the
\* line appended to the chat's history is that option of the poll.
C4_WinnerRule ==
    [][\A c \in Chats :
          Len(data'[c].polls) = Len(data[c].polls) + 1 =>
              LET r == data'[c].polls[Len(data'[c].polls)]
                  poll == objs[r.poll_id]
              IN /\ r.votes = poll.votes /\ r.options = poll.options
                 /\ IsLowestMax(poll.votes, r.winner_index)
                 /\ r.winner = poll.options[r.winner_index + 1]
                 /\ GetCodeHistory(data', c)
                      = Append(GetCodeHistory(data, c), poll.options[r.winner_index + 1])]_vars

\* C4, witness: the tally {0:3, 1:3, 2:1, 3:0} was closed with winner index 0
\* and the poll's first option is the chat's history.
C4_Witness ==
    /\ Len(data[1].polls) = 1
    /\ [i \in OptionIds |-> CountOf(data[1].polls[1].votes, i)]
         = [i \in OptionIds |-> CASE i = 0 -> 3 [] i = 1 -> 3 [] i = 2 -> 1 [] OTHER -> 0]
    /\ data[1].polls[1].winner_index = 0
    /\ GetCodeHistory(data, 1) = <<Line(1, 0)>>

\* C5: a close whose chat was cleared by an admin restart before the close
\* committed has no side effects: it never gets past its wait for stop_poll
\* to archive a result, clear activePoll or announce.
C5_NoEffectAfterClear == \A t \in Running : t.cleared => t.pc = "stop"

\* C6: an admin restart that returns has cleared the target chat and has
\* attempted openPoll (it returns from its wait for bot.send_poll), whatever
\* the outcome of the snapshot step.
C6_RestartClearsAndOpens ==
    [][(handler.kind = "start" /\ handler'.kind = "idle" /\ ~ProcessRestart)
          => handler.pc = "publish"]_vars

\* C7: a close that committed a winner goes on to the settle delay and the
\* re-check; when the re-check finds no active poll it opens a poll with a
\* history that holds the winner line just committed, and otherwise opens none.
InHistory(line, hist) == \E i \in 1..Len(hist) : hist[i] = line
C7_AutoChain ==
    [][~ProcessRestart =>
         \A t \in Running :
            /\ t.pc = "announce" =>
                  (t \in BagToSet(tasks') \/ [t EXCEPT !.pc = "sleep"] \in BagToSet(tasks'))
            /\ (t.pc = "sleep" /\ t \notin BagToSet(tasks')) =>
                  IF ActiveOf(t.chat) = NoPoll
                  THEN \E u \in BagToSet(tasks') :
                          /\ u.poll = t.poll /\ u.pc = "publish"
                          /\ InHistory(t.winner, u.ctx)
                  ELSE TasksOf(t.poll)' = {} /\ nextPoll' = nextPoll]_vars

\* C8: a poll answer whose poll id is no chat's active poll changes no
\* session, no poll record and nothing that is stored.
NoActivePollHas(pid) ==
    \A c \in Chats : ActiveOf(c) = NoPoll \/ objs[ActiveOf(c)].poll_id # pid
C8_StaleVoteNoOp ==
    [][(handler.kind = "idle" /\ handler' = handler /\ events' # events) =>
          \A pid \in PollIds :
             (NoActivePollHas(pid) /\ \E u \in Voters, ids \in OptionIdLists : PollAnswer(u, pid, ids)) =>
                 UNCHANGED <<data, objs, disk, jobs, tasks, gw>>]_vars

\* C8, witness: a poll answer that named no active poll has been handled
\* after a poll was closed and archived.
C8_Witness == dropped /\ \E p \in PollIds : archivedCnt[p] = 1 /\ ResultsOf(p) # {}

\* C9: a poll answer that names the id of a chat's active poll and one option
\* index in 0..3 raises the count of that option by one and changes nothing
\* else.
C9_VoteCounts ==
    [][\A c \in Chats, i \in OptionIds :
          (ActiveOf(c) # NoPoll
             /\ \E u \in Voters : PollAnswer(u, objs[ActiveOf(c)].poll_id, <<i>>)) =>
              /\ \A j \in OptionIds :
                    CountOf(objs'[ActiveOf(c)].votes, j)
                      = CountOf(objs[ActiveOf(c)].votes, j) + (IF j = i THEN 1 ELSE 0)
              /\ objs'[ActiveOf(c)].options = objs[ActiveOf(c)].options
              /\ UNCHANGED <<data, jobs, tasks, gw>>]_vars

\* C10: what is stored loads back equal, field for field, to the session in
\* memory, for a session with non-empty history and an active poll.
C10_RoundTrip ==
    \A c \in Chats :
        (GetCodeHistory(data, c) # <<>> /\ ActiveOf(c) # NoPoll) =>
            Load(disk)[c] = SessionValue(data, objs, c)

\* C11: when clear_chat has run (start_command goes on to its reply at line
\* 300), the chat's session exists with empty polls, an empty line history and
\* no active poll, in memory and in the stored file, whatever it was before.
C11_ClearResets ==
    [][(handler'.kind = "start" /\ handler'.pc = "reply"
          /\ handler.pc \in {"idle", "snapshot"}) =>
             LET c == handler'.chat IN
             /\ data'[c].present
             /\ data'[c].polls = <<>>
             /\ data'[c].active_poll = NoPoll
             /\ GetCodeHistory(data', c) = <<>>
             /\ Load(disk')[c].polls = <<>>
             /\ Load(disk')[c].active_poll.poll_id = NoPoll]_vars

\* C11, witness: clear_chat has just run on a chat that had a line history
\* (the snapshot was taken from it) and a poll in flight (still open at
\* Telegram), and the session is the empty one.
C11_Witness ==
    /\ handler.kind = "start" /\ handler.pc = "reply"
    /\ handler.hist # <<>>
    /\ OpenPolls(handler.chat) # {}
    /\ data[handler.chat] = NewSession

\* C12: a /sendnow for a chat that has an active poll only sends the refusal:
\* the command goes to its refusal and returns from it, and neither step
\* publishes a poll, schedules a close or changes a session, a poll record or
\* the stored file.
C12_SendnowRefused ==
    [][/\ (handler.kind = "idle" /\ handler'.kind = "sendnow"
            /\ ActiveOf(handler'.chat) # NoPoll) =>
               /\ handler'.pc = "refuse"
               /\ UNCHANGED <<data, objs, disk, jobs, tasks, nextPoll, gw>>
       /\ (handler.pc = "refuse" /\ handler' # handler /\ ~ProcessRestart) =>
               /\ handler' = IdleHandler
               /\ UNCHANGED <<data, objs, disk, jobs, tasks, nextPoll, gw>>]_vars

\* C12, witness: the refusal is being sent for a chat whose session has a
\* line history and an active poll with a vote counted.
C12_Witness ==
    /\ handler.kind = "sendnow" /\ handler.pc = "refuse"
    /\ ActiveOf(handler.chat) # NoPoll
    /\ GetCodeHistory(data, handler.chat) # <<>>
    /\ \E i \in OptionIds : CountOf(objs[ActiveOf(handler.chat)].votes, i) > 0

\* ------------------------------------------ generate_code_options alone
\* most lines in a response of the language model
MaxResponseLines == 5

\* an assignment of 95 characters and one of 96
Fits95 == "x = 1111111111111111111111111111111111111111111111111111111111111111111111111111111111111111111"
Over96 == "x = 11111111111111111111111111111111111111111111111111111111111111111111111111111111111111111111"

\* the lines a response is made of: blank, indented and not, equal once
\* stripped, as long as allowed and longer, a fence, and the text of a
\* padding line
RawLines ==
    {Text(0, ""), Text(0, "x = 1"), Text(4, "x = 1"), Text(0, "y = 2"),
     Text(0, "z = 3"), Text(0, Fits95), Text(0, Over96), Text(0, "~~~python"),
     Text(4, "# Option 2")}
\* what call_llm returns, split at the newlines: "" on a failure
Responses == UNION {[1..n -> RawLines] : n \in 1..MaxResponseLines}
\* code_history: empty, or the lines chosen so far
Histories == {<<>>, <<Text(0, "x = 1")>>}

InitOptions ==
    /\ data = [c \in Chats |-> Absent]
    /\ objs = [p \in PollIds |-> NoObj]
    /\ disk = Save(data, objs)
    /\ jobs = {}
    /\ tasks = EmptyBag
    /\ handler = IdleHandler
    /\ nextPoll = 1
    /\ gw = [p \in PollIds |-> NoGw]
    /\ archivedCnt = [p \in PollIds |-> 0]
    /\ announcedCnt = [p \in PollIds |-> 0]
    /\ events = 0
    /\ dropped = FALSE
    /\ voters = [p \in PollIds |-> {}]
    /\ publishFailed = FALSE
    /\ \E h \in Histories, r \in Responses :
          gen = [pc |-> "called", code_history |-> h, response |-> r, options |-> <<>>]

\* generate_code_options returns
GenerateReturn ==
    /\ gen.pc = "called"
    /\ gen' = [gen EXCEPT !.pc = "returned",
                          !.options = generate_code_options(gen.code_history, gen.response)]
    /\ UNCHANGED <<data, objs, disk, jobs, tasks, handler, nextPoll, gw, archivedCnt,
                   announcedCnt, events, dropped, voters, publishFailed>>

NextOptions == GenerateReturn

SpecOptions == InitOptions /\ [][NextOptions]_vars

\* C13: generate_code_options returns exactly four strings, pairwise
\* distinct, none empty and none longer than 95 characters, for an empty and
\* a non-empty history and whatever the language model returned.
C13_FourDistinctOptions ==
    gen.pc = "returned" =>
        /\ Len(gen.options) = 4
        /\ \A i, j \in 1..Len(gen.options) : i # j => gen.options[i] # gen.options[j]
        /\ \A i \in 1..Len(gen.options) :
              Length(gen.options[i]) > 0 /\ Length(gen.options[i]) <= 95

\* C13, witness: the response held the text of the second padding line,
\* indented like it, and a line too long; the options are that text
\* stripped and the paddings 2 to 4.
C13_Witness ==
    /\ gen.pc = "returned"
    /\ gen.response = <<Text(4, "# Option 2"), Text(0, Over96)>>
    /\ gen.options = <<Text(0, "# Option 2"), Placeholder(2), Placeholder(3), Placeholder(4)>>

\* C14: for every active poll, the four vote counts add up to at most the
\* number of distinct users whose poll answers for that poll were handled.
RECURSIVE SumVotes(_)
SumVotes(votes) == IF votes = <<>> THEN 0 ELSE Head(votes).v + SumVotes(Tail(votes))
C14_VotesWithinVoters ==
    \A c \in Chats :
        ActiveOf(c) # NoPoll =>
            SumVotes(objs[ActiveOf(c)].votes) <= Cardinality(voters[ActiveOf(c)])

\* C15: every active poll's votes has exactly the keys 0, 1, 2, 3, the ints,
\* with counts that are naturals, all 0 when the poll becomes active, and its
\* options are four entries that stay as they are while the poll is active;
\* also for the sessions a restarted process loads from the file.
C15_VotesShape ==
    [][\A c \in Chats :
          ActiveOf(c)' # NoPoll =>
              LET poll == objs'[ActiveOf(c)'] IN
              /\ Len(poll.votes) = NumOptions
              /\ \A i \in OptionIds :
                    poll.votes[i + 1].k = IntKey(i) /\ poll.votes[i + 1].v \in Nat
              /\ Len(poll.options) = NumOptions
              /\ ActiveOf(c)' = ActiveOf(c) => poll.options = objs[ActiveOf(c)].options
              /\ (ActiveOf(c)' # ActiveOf(c) /\ ~ProcessRestart) =>
                    \A i \in OptionIds : poll.votes[i + 1].v = 0]_vars

\* C16: every active poll has its timeout close event ahead of it: the job
\* that closes it is pending in the job queue, or has fired and its close is
\* in progress; so no chat stays on an active poll that nothing will close.
C16_CloseScheduled ==
    \A c \in Chats :
        ActiveOf(c) # NoPoll =>
            \/ objs[ActiveOf(c)].poll_id \in jobs
            \/ \E t \in TasksOf(objs[ActiveOf(c)].poll_id) : t.pc = "stop"

\* C17: a chat's line history changes only by a clear (clear_chat of
\* start_command, which empties it) or by the append of one line at its end,
\* the lines before it staying as they were, in their order.
C17_AppendOnly ==
    [][\A c \in Chats :
          LET before == GetCodeHistory(data, c)
              after  == GetCodeHistory(data', c)
          IN after # before =>
                \/ /\ after = <<>>
                   /\ handler'.kind = "start" /\ handler'.pc = "reply"
                   /\ handler'.chat = c /\ handler.pc \in {"idle", "snapshot"}
                \/ /\ Len(after) = Len(before) + 1
                   /\ SubSeq(after, 1, Len(before)) = before]_vars

\* C17, witness: a chat's history holds two lines, of two polls closed one
\* after the other.
C17_Witness ==
    \E c \in Chats :
        /\ Len(GetCodeHistory(data, c)) = 2
        /\ data[c].polls[1].poll_id # data[c].polls[2].poll_id

\* C18: when bot.send_poll raises in send_poll, of a command or of the
\* chain, nothing is recorded: the sessions (so a null activePoll stays null,
\* history and archived results stay), the poll records, the stored file, the
\* job queue and Telegram's polls are unchanged, and the command or the
\* close that called send_poll just ends.
C18_PublishFailure ==
    [][(events' # events /\ ~ProcessRestart) =>
          /\ (handler.pc = "publish" /\ handler' # handler) =>
                /\ handler' = IdleHandler
                /\ UNCHANGED <<data, objs, disk, jobs, tasks, nextPoll, gw>>
          /\ \A t \in Running :
                (t.pc = "publish" /\ tasks' = Drop(tasks, t)) =>
                    UNCHANGED <<data, objs, disk, jobs, handler, nextPoll, gw>>]_vars

\* C18, witness: a bot.send_poll call has raised, the chat of the only poll
\* published so far has a line history, no active poll and nothing scheduled
\* or running: the chained send_poll failed and left the chat idle.
C18_Witness ==
    /\ publishFailed
    /\ nextPoll = 2 /\ jobs = {} /\ tasks = EmptyBag /\ handler = IdleHandler
    /\ \E c \in Chats :
          /\ gw[1].chat = c
          /\ Len(data[c].polls) = 1 /\ ActiveOf(c) = NoPoll
          /\ disk = Save(data, objs)

\* C19: when stop_poll raises in a close, the close goes on as if it had not:
\* the result is archived with the poll's options and votes and the winner
\* of the lowest highest count, the winning line is appended to the chat's
\* history, the chat's active poll is set to none, and the close goes on to
\* send the announcement of that line.
C19_StopFailureNotFatal ==
    [][(events' # events /\ handler' = handler /\ ~ProcessRestart) =>
          \A t \in Running :
             (t.pc = "stop" /\ CopiesIn(t, tasks') < CopiesIn(t, tasks)) =>
                 LET poll == objs[t.poll]
                     polls == data'[t.chat].polls
                     r == polls[Len(polls)]
                 IN /\ gw'[t.poll] = gw[t.poll]
                    /\ Len(polls) = Len(GetChat(data, t.chat)[t.chat].polls) + 1
                    /\ r.poll_id = t.poll
                    /\ r.votes = poll.votes /\ r.options = poll.options
                    /\ IsLowestMax(poll.votes, r.winner_index)
                    /\ r.winner = poll.options[r.winner_index + 1]
                    /\ GetCodeHistory(data', t.chat)
                         = Append(GetCodeHistory(data, t.chat), r.winner)
                    /\ ActiveOf(t.chat)' = NoPoll
                    /\ archivedCnt'[t.poll] = archivedCnt[t.poll] + 1
                    /\ tasks' = Step(tasks, t, [t EXCEPT !.pc = "announce",
                                                         !.winner = r.winner])]_vars

\* C19, witness: a poll that Telegram still shows open, its stop_poll having
\* failed, has its result archived and announced, its winning line in the
\* history of its chat, and the chat has no active poll.
C19_Witness ==
    \E p \in PollIds :
        /\ gw[p].open
        /\ archivedCnt[p] = 1 /\ announcedCnt[p] = 1
        /\ ActiveOf(gw[p].chat) = NoPoll
        /\ \E i \in 1..Len(data[gw[p].chat].polls) :
              /\ data[gw[p].chat].polls[i].poll_id = p
              /\ InHistory(data[gw[p].chat].polls[i].winner,
                           GetCodeHistory(data, gw[p].chat))

\* C20: an event handled for one chat leaves the session of every other chat
\* (its archived results, so its history, its active poll and that poll's
\* votes) as it was: a step of the command in flight changes at most the
\* session of the command's chat, a timer that fires or a step of a close at
\* most the session of the poll's chat, a counted poll answer at most the
\* session of the chat the poll was published in.
Changed == {c \in Chats : SessionValue(data', objs', c) # SessionValue(data, objs, c)}
C20_ChatsIsolated ==
    [][~ProcessRestart =>
          /\ Cardinality(Changed) <= 1
          /\ handler' # handler =>
                Changed \subseteq {IF handler.kind = "idle" THEN handler'.chat
                                                           ELSE handler.chat}
          /\ \A p \in jobs \ jobs' : Changed \subseteq {gw[p].chat}
          /\ \A t \in Running :
                (handler' = handler /\ CopiesIn(t, tasks') < CopiesIn(t, tasks)) =>
                    Changed \subseteq {t.chat}
          /\ \A p \in PollIds :
                (gw[p].chat # 0 /\ objs'[p].poll_id = p /\ objs[p].poll_id = p
                   /\ objs'[p].votes # objs[p].votes) =>
                    Changed \subseteq {gw[p].chat}]_vars

\* C20, witness: an admin restart has just cleared chat 2 while chat 1 has a
\* line history and an active poll with a vote counted.
C20_Witness ==
    /\ handler.kind = "start" /\ handler.pc = "reply" /\ handler.chat = 2
    /\ data[2] = NewSession
    /\ GetCodeHistory(data, 1) # <<>>
    /\ ActiveOf(1) # NoPoll
    /\ \E i \in OptionIds : CountOf(objs[ActiveOf(1)].votes, i) > 0

\* C21: every archived result is self-consistent and frozen: its winner_index
\* is the lowest index with the highest count of the votes stored in that
\* result, its winner is options[winner_index], and no step, in particular
\* no poll answer that carries the id of its poll, changes the counts, the
\* options, the winner or the winner_index of a result that stays archived.
SelfConsistent(r) ==
    /\ IsLowestMax(r.votes, r.winner_index)
    /\ r.winner = r.options[r.winner_index + 1]
SameResult(r, q) ==
    /\ \A i \in OptionIds : CountOf(r.votes, i) = CountOf(q.votes, i)
    /\ r.options = q.options
    /\ r.winner = q.winner
    /\ r.winner_index = q.winner_index
C21_ResultsFrozen ==
    [][\A c \in Chats :
          /\ \A i \in 1..Len(data'[c].polls) : SelfConsistent(data'[c].polls[i])
          /\ \A i \in 1..Len(data[c].polls) :
                (i <= Len(data'[c].polls)
                   /\ data'[c].polls[i].poll_id = data[c].polls[i].poll_id)
                => SameResult(data[c].polls[i], data'[c].polls[i])]_vars
\* a poll answer for an archived poll was handled, and the result of that
\* poll, won by the second option with one vote, is as it was archived
C21_Witness ==
    /\ dropped
    /\ \E c \in Chats :
          /\ Len(data[c].polls) = 1
          /\ data[c].polls[1].winner_index = 1
          /\ CountOf(data[c].polls[1].votes, 1) = 1
          /\ SelfConsistent(data[c].polls[1])

\* C22: the history of a chat has exactly one line per archived result of the
\* chat's session, in the order the polls were closed: the k-th line is the
\* winner of the k-th result and one of its four options; a line enters the
\* history only as the last one, by the close of a poll of that chat, and a
\* close starts only for the poll that is the chat's active poll.
OneLinePerResult(d, c) ==
    LET ps == d[c].polls
        h == GetCodeHistory(d, c)
    IN /\ Len(h) = Len(ps)
       /\ \A k \in 1..Len(ps) :
             /\ h[k] = ps[k].winner
             /\ Len(ps[k].options) = NumOptions
             /\ \E i \in 1..NumOptions : h[k] = ps[k].options[i]
EntersByClose(c) ==
    LET h == GetCodeHistory(data, c)
        hn == GetCodeHistory(data', c)
    IN Len(hn) > Len(h) =>
          \E t \in Running :
             /\ t.pc = "stop" /\ t.chat = c /\ gw[t.poll].chat = c
             /\ \E i \in 1..NumOptions : hn = Append(h, objs[t.poll].options[i])
             /\ data'[c].polls[Len(hn)].poll_id = objs[t.poll].poll_id
CloseOfActive ==
    \A t \in BagToSet(tasks') :
        (t.pc = "stop" /\ ~\E u \in Running : u.pc = "stop" /\ u.poll = t.poll)
        => StillActive(t.chat, t.poll)
C22_HistoryOfResults ==
    [][/\ \A c \in Chats : OneLinePerResult(data', c) /\ EntersByClose(c)
       /\ CloseOfActive]_vars
\* two polls of a chat were closed one after the other and the third is open
C22_Witness ==
    \E c \in Chats :
        /\ Len(data[c].polls) = 2
        /\ OneLinePerResult(data, c)
        /\ data[c].polls[1].poll_id < data[c].polls[2].poll_id
        /\ ActiveOf(c) # NoPoll

\* C23: the snapshot of an admin restart is built from exactly the history
\* that the restart clears: when clear_chat runs after the snapshot, the
\* history of the target chat is the one the command read for the snapshot,
\* so no committed line is wiped without having been part of the snapshot.
C23_SnapshotIsWhatIsCleared ==
    [][(handler.kind = "start" /\ handler.pc = "snapshot" /\ handler'.pc = "reply")
       => GetCodeHistory(data, handler.chat) = handler.hist]_vars

====
